---- MODULE Spec2Model ----
(***************************************************************************)
(* A model of the keypath diff/patch engine of src/src/diff.ts.            *)
(*                                                                         *)
(* A JavaScript value is modelled as a function from relative paths        *)
(* (sequences of keys) to tokens: the token at the empty path << >> is the *)
(* kind of the value itself, the other paths are the nodes below a plain   *)
(* object.  Arrays and dates are atomic (keyPaths never descends into      *)
(* them), so they are tokens as well.  "undef" at << >> is undefined.      *)
(* Object.keys of a document is taken in the order of KeyOrder.            *)
(***************************************************************************)
EXTENDS Integers, Sequences, FiniteSets, TLC

(***************************************************************************)
(* Bounds of the model.                                                    *)
(***************************************************************************)
MaxNodes == 3
MaxEntries == 2

GenKeys == <<"a", "b">>
KeyOrder == <<"_id", "a", "b">>
Keys == {KeyOrder[i] : i \in 1..Len(KeyOrder)}

(***************************************************************************)
(* Tokens: numbers 0, 1, 2; strings "" and "x"; false, true; null; two     *)
(* dates with different instants; the arrays [] and [1]; a plain object.   *)
(***************************************************************************)
Numbers == {"n0", "n1", "n2"}
Strings == {"s", "sx"}
Booleans == {"bF", "bT"}
Dates == {"d1", "d2"}
Arrays == {"arrE", "arr1"}
Leaves == Numbers \cup Strings \cup Booleans \cup {"null"} \cup Dates \cup Arrays

Leaf(t) == (<< >> :> t)
Undefined == Leaf("undef")
EmptyObject == Leaf("obj")

Tok(v) == v[<< >>]

\* Array.isArray(v)
IsArray(v) == Tok(v) \in Arrays
\* v instanceof Date
IsDate(v) == Tok(v) \in Dates
\* check(v, Number)
checkNumber(v) == Tok(v) \in Numbers
\* typeof v === 'object' (true of null, arrays and dates too)
TypeofObject(v) == Tok(v) \in {"obj", "null"} \cup Arrays \cup Dates
\* JavaScript truthiness of v
Truthy(v) == Tok(v) \notin {"undef", "null", "bF", "s", "n0"}

\* the keys of a plain object, in iteration order
ObjectKeys(v) == SelectSeq(KeyOrder, LAMBDA k : <<k>> \in DOMAIN v)

\* Object.keys(v).length; -1 stands for the TypeError raised on undefined/null
ObjectKeysLength(v) ==
    CASE Tok(v) \in {"undef", "null"} -> -1
      [] Tok(v) = "obj" -> Len(ObjectKeys(v))
      [] Tok(v) = "arr1" -> 1
      [] Tok(v) = "sx" -> 1
      [] OTHER -> 0

(***************************************************************************)
(* ./containers                                                            *)
(***************************************************************************)
\* deep structural equality
isEqual(actual, expected) == actual = expected

\* a deep copy; values of the model carry no identity, so the copy is the value
clone(input) == input

IsPrefix(p, q) == Len(p) <= Len(q) /\ SubSeq(q, 1, Len(p)) = p

\* remove the paths at or below p
RemoveAt(obj, p) ==
    [q \in {r \in DOMAIN obj : ~IsPrefix(p, r)} |-> obj[q]]

\* the empty plain objects below the root
EmptyBranches(obj) ==
    {p \in DOMAIN obj : /\ p # << >>
                        /\ obj[p] = "obj"
                        /\ ~\E q \in DOMAIN obj : q # p /\ IsPrefix(p, q)}

RECURSIVE prune(_)
prune(obj) ==
    IF EmptyBranches(obj) = {} THEN obj
    ELSE prune([q \in (DOMAIN obj) \ EmptyBranches(obj) |-> obj[q]])

(***************************************************************************)
(* ./keypath                                                               *)
(***************************************************************************)
\* A keypath is a dot-delimited string in the code; here it is the sequence of
\* its segments (keyPath.split('.')), and `${key}.${keyPath}` is <<key>> \o keyPath.

\* the value at keyPath, undefined when a segment is missing
valueForKeyPath(keyPath, input) ==
    IF keyPath \in DOMAIN input
    THEN LET below == {r \in DOMAIN input : IsPrefix(keyPath, r)}
         IN [q \in {SubSeq(r, Len(keyPath) + 1, Len(r)) : r \in below}
                |-> input[keyPath \o q]]
    ELSE Undefined

\* write value at keyPath, creating the intermediate mappings; an undefined
\* value is a removal
setValueForKeyPath(value, keyPath, input) ==
    LET base == RemoveAt(input, keyPath)
        inter == {SubSeq(keyPath, 1, i) : i \in 1..(Len(keyPath) - 1)}
        added == IF value = Undefined THEN {}
                 ELSE {keyPath \o r : r \in DOMAIN value}
    IN [p \in (DOMAIN base) \cup inter \cup added |->
            IF IsPrefix(keyPath, p) THEN value[SubSeq(p, Len(keyPath) + 1, Len(p))]
            ELSE IF p \in inter THEN "obj"
            ELSE base[p]]

\* remove the node at keyPath
unsetKeyPath(keyPath, obj) == RemoveAt(obj, keyPath)

\* keyPath is a proper descendant of ignorePath.  The first argument is the
\* contained path: filteredKeyPaths drops the paths at or below an ignored one,
\* and the loop of diffToModifier deletes pathA, the descendant, when
\* _keyPathContainsPath(pathA, pathB).
_keyPathContainsPath(keyPath, ignorePath) ==
    Len(keyPath) > Len(ignorePath) /\ IsPrefix(ignorePath, keyPath)

keyPathContainsPath(keyPath, ignorePath) ==
    keyPath = ignorePath \/ _keyPathContainsPath(keyPath, ignorePath)

\* the paths that are not at or below an ignored path
filteredKeyPaths(_keyPaths, ignore) ==
    SelectSeq(_keyPaths,
              LAMBDA p : ~\E i \in 1..Len(ignore) : keyPathContainsPath(p, ignore[i]))

\* depth-first keypaths of the plain object at parent: the leaves, and with
\* allLevels the branches as well; arrays and dates are leaves
RECURSIVE keyPathsFrom(_, _, _, _)
keyPathsFrom(obj, allLevels, parent, i) ==
    IF i > Len(KeyOrder) THEN << >>
    ELSE LET p == parent \o <<KeyOrder[i]>>
             here == IF p \notin DOMAIN obj THEN << >>
                     ELSE IF obj[p] = "obj"
                          THEN (IF allLevels THEN <<p>> ELSE << >>)
                               \o keyPathsFrom(obj, allLevels, p, 1)
                          ELSE <<p>>
         IN here \o keyPathsFrom(obj, allLevels, parent, i + 1)

keyPaths(obj, allLevels) == keyPathsFrom(obj, allLevels, << >>, 1)

(***************************************************************************)
(* diff.ts: the change classifier                                          *)
(***************************************************************************)
shouldSet(val, prev) ==
    IF IsArray(val) THEN ~isEqual(prev, val)
    ELSE IF IsDate(val) THEN ~IsDate(prev) \/ val # prev
    ELSE IF checkNumber(val) THEN prev # val \/ ~checkNumber(prev)
    ELSE IF Tok(val) = "obj" THEN ~isEqual(prev, val)
    ELSE IF Truthy(val) THEN prev # val
    ELSE FALSE

\* shouldUnset with a previous value counted as present only when truthy
shouldUnsetTruthyPrev(val, prev) ==
    IF Truthy(prev) /\ ~(Truthy(val) \/ checkNumber(val))
    THEN "true"
    ELSE IF Tok(val) # "null" /\ TypeofObject(prev)
         THEN (IF ObjectKeysLength(val) < 0 THEN "TypeError"
               ELSE IF ObjectKeysLength(val) = 0 THEN "true" ELSE "false")
         ELSE "false"

\* "true", "false", or "TypeError" when Object.keys is applied to undefined
shouldUnset(val, prev) ==
    IF (Truthy(prev) \/ checkNumber(prev)) /\ ~(Truthy(val) \/ checkNumber(val))
    THEN "true"
    ELSE IF Tok(val) # "null" /\ TypeofObject(prev)
         THEN (IF ObjectKeysLength(val) < 0 THEN "TypeError"
               ELSE IF ObjectKeysLength(val) = 0 THEN "true" ELSE "false")
         ELSE "false"

(***************************************************************************)
(* diff.ts: modifiers.  $set and $unset are sequences of <<keypath, value>> *)
(* in insertion order; hasSet / hasUnset say whether the field is present. *)
(* kind is "modifier", "undefined" (no modifier) or "TypeError" (the call  *)
(* threw).                                                                 *)
(***************************************************************************)
Modifier(s, u) ==
    [kind |-> "modifier", hasSet |-> TRUE, set |-> s, hasUnset |-> TRUE, unset |-> u]
NoModifier ==
    [kind |-> "undefined", hasSet |-> FALSE, set |-> << >>, hasUnset |-> FALSE, unset |-> << >>]
Threw ==
    [kind |-> "TypeError", hasSet |-> FALSE, set |-> << >>, hasUnset |-> FALSE, unset |-> << >>]

True == Leaf("bT")

SetPaths(m) == {m.set[i][1] : i \in 1..Len(m.set)}
UnsetPaths(m) == {m.unset[i][1] : i \in 1..Len(m.unset)}

\* the forward pass: delta.$set
ForwardPass(prev, doc, fieldsToIgnore) ==
    IF ~Truthy(doc) THEN << >>
    ELSE LET forwardKeyPaths == filteredKeyPaths(keyPaths(doc, FALSE), fieldsToIgnore)
             hits == SelectSeq(forwardKeyPaths,
                        LAMBDA keyPath : shouldSet(valueForKeyPath(keyPath, doc),
                                                   valueForKeyPath(keyPath, prev)))
         IN [i \in 1..Len(hits) |-> <<hits[i], valueForKeyPath(hits[i], doc)>>]

\* the keypaths of prev the backward pass visits
existingKeyPaths(prev, fieldsToIgnore) ==
    IF ~Truthy(prev) THEN << >>
    ELSE filteredKeyPaths(keyPaths(prev, TRUE), fieldsToIgnore)

\* the backward pass before subsumption: the keypaths recorded in delta.$unset
Recorded(prev, doc, fieldsToIgnore) ==
    SelectSeq(existingKeyPaths(prev, fieldsToIgnore),
              LAMBDA keyPath : shouldUnset(valueForKeyPath(keyPath, doc),
                                           valueForKeyPath(keyPath, prev)) = "true")

\* the backward pass raises when shouldUnset does
BackwardThrows(prev, doc, fieldsToIgnore) ==
    LET kps == existingKeyPaths(prev, fieldsToIgnore)
    IN \E i \in 1..Len(kps) :
          shouldUnset(valueForKeyPath(kps[i], doc), valueForKeyPath(kps[i], prev)) = "TypeError"

\* the subsumption loop with the arguments of _keyPathContainsPath exchanged
SubsumeUpper(keys) ==
    SelectSeq(keys, LAMBDA pathA :
                 ~\E j \in 1..Len(keys) : _keyPathContainsPath(keys[j], pathA))

\* the subsumption loop: pathA is deleted when it lies below some recorded pathB
Subsume(keys) ==
    SelectSeq(keys, LAMBDA pathA :
                 ~\E j \in 1..Len(keys) : _keyPathContainsPath(pathA, keys[j]))

BackwardPass(prev, doc, fieldsToIgnore) ==
    LET kept == Subsume(Recorded(prev, doc, fieldsToIgnore))
    IN [i \in 1..Len(kept) |-> <<kept[i], True>>]

\* diffToModifier(prev, doc, fieldsToIgnore), pruneEmptyObjects not given
diffToModifier(prev, doc, fieldsToIgnore) ==
    IF BackwardThrows(prev, doc, fieldsToIgnore) THEN Threw
    ELSE LET s == ForwardPass(prev, doc, fieldsToIgnore)
             u == BackwardPass(prev, doc, fieldsToIgnore)
         IN IF Len(s) = 0 /\ Len(u) = 0 THEN NoModifier
            ELSE [kind |-> "modifier", hasSet |-> Len(s) > 0, set |-> s,
                  hasUnset |-> Len(u) > 0, unset |-> u]

objToModifier(obj) == diffToModifier(Undefined, obj, << >>)

\* difference(a, b) of ./containers: the elements of a that are not in b
difference(a, b) ==
    SelectSeq(a, LAMBDA x : ~\E i \in 1..Len(b) : b[i] = x)

\* union(a, b) of ./containers: a, then the elements of b that are not in a
union(a, b) == a \o difference(b, a)

\* the leaf keypaths of prev that are no leaf keypaths of doc are ignored too
forwardDiffToModifier(prev, doc, fieldsToIgnore) ==
    LET filteredKeys == union(difference(keyPaths(prev, FALSE), keyPaths(doc, FALSE)),
                              fieldsToIgnore)
    IN diffToModifier(prev, doc, filteredKeys)

(***************************************************************************)
(* diff.ts: the applier.  While $set runs on a modifier, each() also walks *)
(* the modifier's own fields and writes them into dest under the keys      *)
(* "$set" and "$unset"; their values are the field mappings, kept here as  *)
(* the tokens "mod$set" and "mod$unset".                                   *)
(***************************************************************************)
\* each(flat mapping): write the numeric or truthy values
RECURSIVE SetEach(_, _, _)
SetEach(dest, entries, i) ==
    IF i > Len(entries) THEN dest
    ELSE LET keyPath == entries[i][1]
             val == entries[i][2]
         IN SetEach(IF checkNumber(val) \/ Truthy(val)
                    THEN setValueForKeyPath(val, keyPath, dest)
                    ELSE dest,
                    entries, i + 1)

\* each(flat mapping): unset every keypath
RECURSIVE UnsetEach(_, _, _)
UnsetEach(dest, entries, i) ==
    IF i > Len(entries) THEN dest
    ELSE UnsetEach(unsetKeyPath(entries[i][1], dest), entries, i + 1)

\* the modifier's own fields as each() sees them: <<key, value>>
OwnFields(source) ==
    (IF source.hasSet THEN <<<<<<"$set">>, Leaf("mod$set")>>>> ELSE << >>)
    \o (IF source.hasUnset THEN <<<<<<"$unset">>, Leaf("mod$unset")>>>> ELSE << >>)

dollarSet(dest, source) ==
    IF source.kind # "modifier" THEN dest
    ELSE LET inner == IF source.hasSet THEN SetEach(dest, source.set, 1) ELSE dest
         IN SetEach(inner, OwnFields(source), 1)

dollarUnset(dest, source) ==
    IF source.kind # "modifier" THEN dest
    ELSE LET inner == IF source.hasUnset THEN UnsetEach(dest, source.unset, 1) ELSE dest
         IN UnsetEach(inner, OwnFields(source), 1)

\* apply with the prune moved before $unset
applyPruneFirst(dest, source) ==
    IF source.kind # "modifier" THEN dest
    ELSE IF source.hasSet \/ source.hasUnset
         THEN dollarUnset(prune(dollarSet(dest, source)), source)
         ELSE prune(dest)

\* apply(dest, source) for a modifier source; a source with neither field is
\* the plain object {} and goes through objToModifier
apply(dest, source) ==
    IF source.kind # "modifier" THEN dest
    ELSE IF source.hasSet \/ source.hasUnset
         THEN prune(dollarUnset(dollarSet(dest, source), source))
         ELSE LET mod == objToModifier(EmptyObject)
              IN prune(dollarUnset(dollarSet(dest, mod), mod))

\* modifier.$set[keyPath]
Lookup(entries, keyPath) ==
    IF \E i \in 1..Len(entries) : entries[i][1] = keyPath
    THEN entries[CHOOSE i \in 1..Len(entries) : entries[i][1] = keyPath][2]
    ELSE Undefined

\* kind "Error" is the thrown Error, "TypeError" the read of a property of undefined
mapModifierToKey(modifier, key) ==
    IF modifier.kind # "modifier"
    THEN [Threw EXCEPT !.kind = "Error"]
    ELSE IF modifier.hasUnset /\ Len(modifier.unset) > 0 /\ ~modifier.hasSet
    THEN Threw
    ELSE [kind |-> "modifier",
          hasSet |-> modifier.hasSet /\ Len(modifier.set) > 0,
          set |-> IF modifier.hasSet
                  THEN [i \in 1..Len(modifier.set) |->
                          <<<<key>> \o modifier.set[i][1], modifier.set[i][2]>>]
                  ELSE << >>,
          hasUnset |-> modifier.hasUnset /\ Len(modifier.unset) > 0,
          unset |-> IF modifier.hasUnset
                    THEN [i \in 1..Len(modifier.unset) |->
                            <<<<key>> \o modifier.unset[i][1],
                              Lookup(modifier.set, modifier.unset[i][1])>>]
                    ELSE << >>]

(***************************************************************************)
(* The documents and modifiers the operations are applied to.              *)
(***************************************************************************)
Graft(k, sub) == [p \in {<<k>> \o q : q \in DOMAIN sub} |-> sub[Tail(p)]]

\* {k: t} and {k: sub}
Doc1(k, t) == Graft(k, Leaf(t)) @@ EmptyObject
Branch(k, sub) == Graft(k, sub) @@ EmptyObject

\* the plain objects over the keys GenKeys[i..] with at most n nodes and
\* leaves drawn from S
RECURSIVE Fill(_, _, _)
Fill(i, n, S) ==
    IF i > Len(GenKeys) \/ n = 0 THEN {EmptyObject}
    ELSE Fill(i + 1, n, S) \cup
         UNION {{Graft(GenKeys[i], c) @@ rest :
                    c \in {Leaf(t) : t \in S} \cup Fill(1, m - 1, S),
                    rest \in Fill(i + 1, n - m, S)} : m \in 1..n}

\* every shape of at most MaxNodes nodes
StructDocs == Fill(1, MaxNodes, {"n1"})
\* every kind of leaf, at the top and one level down
LeafDocs ==
    {Doc1("a", t) : t \in Leaves} \cup {Branch("a", Doc1("b", t)) : t \in Leaves}
\* two top-level leaves side by side
PairDocs == {Doc1("a", t) @@ Doc1("b", u) : t \in {"n1", "n2", "bF"}, u \in {"n1", "n2", "bF"}}
Docs == StructDocs \cup LeafDocs \cup PairDocs
Ignores == {<< >>, <<<<"a">>>>, <<<<"b">>>>, <<<<"a", "b">>>>}

\* the modifiers handed to apply and mapModifierToKey
ModPaths == {<<"a">>, <<"b">>, <<"a", "b">>}
ModValues == {Leaf("n0"), Leaf("n1"), Leaf("bF"), EmptyObject}
RECURSIVE EntrySeqs(_, _)
\* the sequences of at most n entries <<keypath, value>> on distinct keypaths
EntrySeqs(n, V) ==
    IF n = 0 THEN {<< >>}
    ELSE LET shorter == EntrySeqs(n - 1, V)
         IN shorter \cup
            {Append(e, <<p, v>>) :
                e \in {x \in shorter : Len(x) = n - 1},
                p \in ModPaths, v \in V}
Distinct(e) == \A i \in 1..Len(e), j \in 1..Len(e) : i # j => e[i][1] # e[j][1]
SetFields == {e \in EntrySeqs(MaxEntries, ModValues) : Distinct(e)}
UnsetFields == {e \in EntrySeqs(MaxEntries, {True}) : Distinct(e)}
Modifiers ==
    {[kind |-> "modifier", hasSet |-> TRUE, set |-> s, hasUnset |-> TRUE, unset |-> u] :
        s \in SetFields, u \in UnsetFields}
    \cup {[kind |-> "modifier", hasSet |-> FALSE, set |-> << >>, hasUnset |-> TRUE, unset |-> u] :
        u \in UnsetFields}
    \cup {[kind |-> "modifier", hasSet |-> TRUE, set |-> s, hasUnset |-> FALSE, unset |-> << >>] :
        s \in SetFields}
    \cup {[NoModifier EXCEPT !.kind = "modifier"]}
ApplyDocs == {d \in StructDocs : Cardinality(DOMAIN d) <= MaxEntries + 1}

\* the documents update is called with and the ones its collaborators return
WithId(d) == Graft("_id", Leaf("sx")) @@ d
UpdateBodies ==
    {EmptyObject, Branch("a", Doc1("b", "n1"))} \cup {Doc1("a", t) : t \in Leaves}
UpdateDocs == UpdateBodies \cup {WithId(d) : d \in UpdateBodies}
IdQuery(d) == Graft("_id", valueForKeyPath(<<"_id">>, d)) @@ EmptyObject

\* a JavaScript object passed as the value of a modifier field: a flat
\* keypath -> value mapping, or a modifier object
Mapping(entries) == [shape |-> "mapping", entries |-> entries, nested |-> NoModifier]
ModifierObject(m) == [shape |-> "modifier", entries |-> << >>, nested |-> m]
NoArgument == [dollarSet |-> Mapping(<< >>)]

Call(fn, arg, mod) == [fn |-> fn, arg |-> arg, mod |-> mod]

VARIABLES
    pc,              \* position of the caller
    prev,            \* diffToModifier's prev; update's model; apply's dest before the call
    doc,             \* diffToModifier's and update's doc
    fieldsToIgnore,  \* diffToModifier's fieldsToIgnore
    source,          \* the modifier: diffToModifier's result, apply's source
    dest,            \* the document apply has mutated; update's copy
    once,            \* the document after the first of two apply calls
    result,          \* mapModifierToKey's result
    options,         \* update's options
    calls,           \* the calls update has made, in order
    thrown           \* the message of the Error update has raised

vars == <<pc, prev, doc, fieldsToIgnore, source, dest, once, result, options, calls, thrown>>

NoOptions == [get |-> FALSE, set |-> FALSE, collection |-> FALSE]

Init ==
    /\ pc = "idle"
    /\ prev = Undefined
    /\ doc = Undefined
    /\ fieldsToIgnore = << >>
    /\ source = NoModifier
    /\ dest = Undefined
    /\ once = Undefined
    /\ result = NoModifier
    /\ options = NoOptions
    /\ calls = << >>
    /\ thrown = ""

\* source = diffToModifier(prev, doc, fieldsToIgnore)
CallDiffToModifier ==
    /\ pc = "idle"
    /\ \E p \in Docs \cup {Undefined}, d \in Docs \cup {Undefined}, ign \in Ignores :
          /\ prev' = p
          /\ doc' = d
          /\ fieldsToIgnore' = ign
          /\ source' = diffToModifier(p, d, ign)
    /\ pc' = "diffed"
    /\ UNCHANGED <<dest, once, result, options, calls, thrown>>

\* source = forwardDiffToModifier(prev, doc, fieldsToIgnore)
CallForwardDiffToModifier ==
    /\ pc = "idle"
    /\ \E p \in Docs, d \in Docs, ign \in Ignores :
          /\ prev' = p
          /\ doc' = d
          /\ fieldsToIgnore' = ign
          /\ source' = forwardDiffToModifier(p, d, ign)
    /\ pc' = "forwardDiffed"
    /\ UNCHANGED <<dest, once, result, options, calls, thrown>>

\* dest = apply(clone(prev), source)
CallApply ==
    /\ pc = "diffed"
    /\ Truthy(prev)
    /\ source.kind # "TypeError"
    /\ dest' = apply(clone(prev), source)
    /\ pc' = "applied"
    /\ UNCHANGED <<prev, doc, fieldsToIgnore, source, once, result, options, calls, thrown>>

(***************************************************************************)
(* apply and mapModifierToKey on modifiers of any shape                    *)
(***************************************************************************)
\* dest = apply(D, M)
CallApplyOnce ==
    /\ pc = "idle"
    /\ \E D \in ApplyDocs, M \in Modifiers :
          /\ prev' = D
          /\ source' = M
          /\ dest' = apply(D, M)
    /\ pc' = "appliedOnce"
    /\ UNCHANGED <<doc, fieldsToIgnore, once, result, options, calls, thrown>>

\* dest = apply(dest, M) once more
CallApplyAgain ==
    /\ pc = "appliedOnce"
    /\ once' = dest
    /\ dest' = apply(dest, source)
    /\ pc' = "appliedTwice"
    /\ UNCHANGED <<prev, doc, fieldsToIgnore, source, result, options, calls, thrown>>

\* $set(D, M) called alone
CallDollarSet ==
    /\ pc = "idle"
    /\ \E D \in ApplyDocs, M \in Modifiers :
          /\ prev' = D
          /\ source' = M
          /\ dest' = dollarSet(D, M)
    /\ pc' = "set"
    /\ UNCHANGED <<doc, fieldsToIgnore, once, result, options, calls, thrown>>

\* result = mapModifierToKey(M, "k")
CallMapModifierToKey ==
    /\ pc = "idle"
    /\ \E M \in Modifiers \cup {NoModifier} :
          /\ source' = M
          /\ result' = mapModifierToKey(M, "k")
    /\ pc' = "mapped"
    /\ UNCHANGED <<prev, doc, fieldsToIgnore, dest, once, options, calls, thrown>>

(***************************************************************************)
(* update(doc, options), one action per stretch between the calls of its   *)
(* collaborators                                                           *)
(***************************************************************************)
CallUpdate ==
    /\ pc = "idle"
    /\ \E d \in UpdateDocs, g \in BOOLEAN, st \in BOOLEAN, c \in BOOLEAN, ign \in Ignores :
          /\ doc' = d
          /\ options' = [get |-> g, set |-> st, collection |-> c]
          /\ fieldsToIgnore' = ign
    /\ pc' = "update"
    /\ UNCHANGED <<prev, source, dest, once, result, calls, thrown>>

\* lines 184-192: the model comes from options.get, else from collection.findOne;
\* m is what the collaborator returns
UpdateResolve ==
    /\ pc = "update"
    /\ \E m \in UpdateDocs \cup {Undefined} :
          LET byGet == options.get
              byFind == ~options.get /\ Truthy(valueForKeyPath(<<"_id">>, doc))
                            /\ options.collection
              model == IF byGet \/ byFind THEN m ELSE Undefined
          IN /\ calls' = IF byGet THEN Append(calls, Call("get", Undefined, NoArgument))
                         ELSE IF byFind
                         THEN Append(calls, Call("findOne", IdQuery(doc), NoArgument))
                         ELSE calls
             /\ prev' = model
             /\ IF ~Truthy(model)
                THEN /\ thrown' = "Diff: no doc to diff against"
                     /\ pc' = "threw"
                ELSE /\ thrown' = thrown
                     /\ pc' = "resolved"
    /\ UNCHANGED <<doc, fieldsToIgnore, source, dest, once, result, options>>

\* line 193
UpdateDiff ==
    /\ pc = "resolved"
    /\ source' = diffToModifier(prev, doc, fieldsToIgnore)
    /\ calls' = Append(calls, Call("diffToModifier", Undefined, NoArgument))
    /\ IF source'.kind = "TypeError"
       THEN thrown' = "TypeError" /\ pc' = "threw"
       ELSE thrown' = thrown /\ pc' = "computed"
    /\ UNCHANGED <<prev, doc, fieldsToIgnore, dest, once, result, options>>

\* update persisting whether or not there is a diff
UpdatePersistAlways ==
    /\ pc = "computed"
    /\ options.collection
    /\ calls' = Append(calls, Call("collection.update", IdQuery(prev),
                                   [dollarSet |-> ModifierObject(source)]))
    /\ pc' = "returned"
    /\ UNCHANGED <<prev, doc, fieldsToIgnore, source, dest, once, result, options, thrown>>

\* lines 194-209; options.set may write the copy into the object that
\* options.get returned (written) or store it elsewhere
UpdatePersist ==
    /\ pc = "computed"
    /\ IF source.kind # "modifier"
       THEN /\ pc' = "returned"
            /\ UNCHANGED <<prev, dest, calls, thrown>>
       ELSE IF ~options.set /\ ~options.collection
       THEN /\ thrown' = "Diff: no setter provided"
            /\ pc' = "threw"
            /\ UNCHANGED <<prev, dest, calls>>
       ELSE IF options.set
       THEN \E written \in BOOLEAN :
               LET copy == apply(clone(prev), source)
               IN /\ dest' = copy
                  /\ calls' = Append(calls, Call("set", copy, NoArgument))
                  /\ prev' = IF written THEN copy ELSE prev
                  /\ IF ~isEqual(copy, prev')
                     THEN thrown' = "Diff: not equal after update" /\ pc' = "threw"
                     ELSE thrown' = thrown /\ pc' = "returned"
       ELSE /\ calls' = Append(calls, Call("collection.update", IdQuery(prev),
                                           [dollarSet |-> ModifierObject(source)]))
            /\ pc' = "returned"
            /\ UNCHANGED <<prev, dest, thrown>>
    /\ UNCHANGED <<doc, fieldsToIgnore, source, once, result, options>>

Next == CallDiffToModifier \/ CallForwardDiffToModifier \/ CallApply

Spec == Init /\ [][Next]_vars

NextModifier ==
    CallApplyOnce \/ CallApplyAgain \/ CallDollarSet \/ CallMapModifierToKey

SpecModifier == Init /\ [][NextModifier]_vars

NextUpdate == CallUpdate \/ UpdateResolve \/ UpdateDiff \/ UpdatePersist

SpecUpdate == Init /\ [][NextUpdate]_vars

(***************************************************************************)
(* Properties of diffToModifier and apply, checked under Spec.             *)
(***************************************************************************)
Diffed == pc \in {"diffed", "applied"}
NodesOf(d) == (DOMAIN d) \ {<< >>}
Ignored(k) == \E i \in 1..Len(fieldsToIgnore) : keyPathContainsPath(k, fieldsToIgnore[i])
Below(b, a) == Len(b) > Len(a) /\ SubSeq(b, 1, Len(a)) = a
Present(v) == Tok(v) \in Leaves \cup {"obj"} /\ Tok(v) \notin {"null", "bF", "s"}
Falsy(v) == Tok(v) \in {"undef", "null", "bF", "s", "n0"}
\* the keypaths of prev whose value pair satisfies shouldUnset
UnsetCandidates ==
    {k \in NodesOf(prev) :
        shouldUnset(valueForKeyPath(k, doc), valueForKeyPath(k, prev)) = "true"}

\* C1: applying diffToModifier(A, B) to a clone of A gives a document
\* deep-equal to B.
C1_RoundTrip ==
    (pc = "applied" /\ fieldsToIgnore = << >> /\ Truthy(doc)) => isEqual(dest, doc)

\* C2: diffToModifier(X, X) returns no modifier, whatever the leaves of X.
C2_DiffOfSameIsAbsent ==
    (Diffed /\ fieldsToIgnore = << >> /\ prev = doc) => source.kind = "undefined"

\* C3: no keypath is both in $set and in $unset of a returned modifier.
C3_SetUnsetDisjoint ==
    source.kind = "modifier" => SetPaths(source) \cap UnsetPaths(source) = {}

\* C4 as stated: of two keypaths of prev that satisfy shouldUnset, one below
\* the other, the upper one is in the returned $unset and the lower one is not.
C4_UpperAlwaysKept ==
    (Diffed /\ fieldsToIgnore = << >> /\ source.kind = "modifier") =>
        \A a \in UnsetCandidates, b \in UnsetCandidates :
            Below(b, a) => (a \in UnsetPaths(source) /\ b \notin UnsetPaths(source))

\* C4 amended: of two keypaths of prev that are not ignored and satisfy
\* shouldUnset, one below the other, the lower one is not in the returned
\* $unset, and the upper one is in it exactly when no such keypath lies above
\* it; no $unset keypath lies below another; removing the whole branch
\* a = {a: 1, b: 1} yields $unset exactly {a: true}.
C4_UnsetSubsumption ==
    (Diffed /\ source.kind = "modifier") =>
        LET R == {k \in UnsetCandidates : ~Ignored(k)}
        IN /\ \A a \in R, b \in R :
                Below(b, a) =>
                    /\ b \notin UnsetPaths(source)
                    /\ a \in UnsetPaths(source) <=> ~\E c \in R : Below(a, c)
           /\ \A a \in UnsetPaths(source), b \in UnsetPaths(source) : ~Below(b, a)
           /\ (/\ prev = Branch("a", Doc1("a", "n1") @@ Doc1("b", "n1"))
               /\ doc = EmptyObject
               /\ fieldsToIgnore = << >>)
                  => (~source.hasSet /\ source.unset = <<<<<<"a">>, True>>>>)

\* a chain of three keypaths that all satisfy shouldUnset has been diffed
C4_Witness ==
    /\ Diffed
    /\ source.kind = "modifier"
    /\ \E a \in UnsetCandidates, b \in UnsetCandidates, c \in UnsetCandidates :
          Below(b, a) /\ Below(c, b) /\ ~Ignored(a)

C12_ForwardDiffUnsetsNothingRemoved ==
    (pc = "forwardDiffed" /\ source.kind = "modifier") =>
        \A k \in NodesOf(prev) :
            k \notin DOMAIN doc =>
                ~\E u \in UnsetPaths(source) : u = k \/ Below(k, u)

(***************************************************************************)
(* Properties of update, checked under SpecUpdate.                         *)
(***************************************************************************)
Fns == [i \in 1..Len(calls) |-> calls[i].fn]
Called(fn) == \E i \in 1..Len(calls) : calls[i].fn = fn
Ended == pc \in {"returned", "threw"}
\* the place of a call in the order resolve -> diff -> persist
Rank(fn) ==
    CASE fn \in {"get", "findOne"} -> 1
      [] fn = "diffToModifier" -> 2
      [] OTHER -> 3

\* C6: with options.set and a non-empty diff, the diff is applied to a clone
\* of the model, the clone is handed to options.set, and 'not equal after
\* update' is raised exactly when the clone is not deep-equal to doc.
C6_RaisedIffCopyDiffersFromDoc ==
    (Ended /\ options.set /\ Called("diffToModifier") /\ source.kind = "modifier") =>
        /\ \E i \in 1..Len(calls) : calls[i].fn = "set" /\ calls[i].arg = dest
        /\ thrown = "Diff: not equal after update" <=> ~isEqual(dest, doc)

\* C7: without options.set, collection.update gets the query {_id: model._id}
\* and a modifier whose $set is exactly the $set mapping of the diff.
C7_CollectionGetsSetMapping ==
    /\ (Ended /\ ~options.set /\ options.collection /\ Called("diffToModifier")
            /\ source.kind = "modifier") => Called("collection.update")
    /\ \A i \in 1..Len(calls) :
          calls[i].fn = "collection.update" =>
              /\ calls[i].arg = IdQuery(prev)
              /\ calls[i].mod = [dollarSet |-> Mapping(source.set)]

\* C10: update calls its collaborators at most once each, in the order
\* resolve (options.get, else collection.findOne) -> diff -> persist
\* (options.set or collection.update); it persists only a non-empty diff; a
\* missing model raises 'no doc to diff against' before any diff or persist;
\* a non-empty diff with neither set nor collection raises 'no setter
\* provided' without persisting.
C10_CallOrder ==
    /\ \A i \in 1..Len(calls), j \in 1..Len(calls) :
          i < j => Rank(calls[i].fn) < Rank(calls[j].fn)
    /\ Called("get") => options.get
    /\ Called("findOne") => ~options.get /\ options.collection
    /\ Called("set") => options.set
    /\ Called("collection.update") => ~options.set /\ options.collection
    /\ (Called("set") \/ Called("collection.update")) =>
          Called("diffToModifier") /\ source.kind = "modifier"
    /\ (pc \notin {"idle", "update"} /\ ~Truthy(prev)) =>
          /\ thrown = "Diff: no doc to diff against"
          /\ \A i \in 1..Len(calls) : Rank(calls[i].fn) = 1
    /\ thrown = "Diff: no doc to diff against" => pc = "threw" /\ ~Truthy(prev)
    /\ (Ended /\ Called("diffToModifier") /\ source.kind = "modifier"
            /\ ~options.set /\ ~options.collection) =>
          /\ thrown = "Diff: no setter provided"
          /\ ~Called("set") /\ ~Called("collection.update")
    /\ thrown = "Diff: no setter provided" =>
          /\ source.kind = "modifier" /\ ~options.set /\ ~options.collection
          /\ ~Called("set") /\ ~Called("collection.update")

\* update has resolved the model, computed a diff and persisted it
C10_Witness ==
    /\ pc = "returned"
    /\ Fns \in {<<"get", "diffToModifier", "set">>,
                <<"findOne", "diffToModifier", "collection.update">>}

(***************************************************************************)
(* Properties of apply and mapModifierToKey, checked under SpecModifier.   *)
(***************************************************************************)
EntrySet(entries) == {entries[i] : i \in 1..Len(entries)}

\* C8: mapModifierToKey(modifier, key) returns, for every present modifier, the
\* modifier whose $set maps key.p to modifier.$set[p] and whose $unset maps
\* key.p to true; it raises only when the modifier is absent.
C8_MapPrefixesBothFields ==
    pc = "mapped" =>
        IF source.kind = "modifier"
        THEN /\ result.kind = "modifier"
             /\ EntrySet(result.set) = {<<<<"k">> \o e[1], e[2]>> : e \in EntrySet(source.set)}
             /\ EntrySet(result.unset) = {<<<<"k">> \o e[1], True>> : e \in EntrySet(source.unset)}
        ELSE result.kind = "Error"

\* C9: apply(apply(D, M), M) is deep-equal to apply(D, M).
C9_ApplyIdempotent ==
    pc = "appliedTwice" => isEqual(dest, once)

\* a modifier with both fields has changed the document and been applied again
C9_Witness ==
    /\ pc = "appliedTwice"
    /\ Len(source.set) > 0
    /\ Len(source.unset) > 0
    /\ once # prev

\* C11: $set(dest, source) called alone with a modifier-shaped source writes
\* only the entries of source.$set: the keys of dest off the keypaths of
\* source.$set are unchanged, and dest gains no key "$set" or "$unset".
C11_DollarSetWritesOnlySetEntries ==
    (pc = "set" /\ (source.hasSet \/ source.hasUnset)) =>
        /\ <<"$set">> \notin DOMAIN dest
        /\ <<"$unset">> \notin DOMAIN dest
        /\ \A p \in (DOMAIN prev) \cup (DOMAIN dest) :
              (\A q \in SetPaths(source) : ~IsPrefix(p, q) /\ ~IsPrefix(q, p))
                  => (p \in DOMAIN prev /\ p \in DOMAIN dest /\ dest[p] = prev[p])

====
